---- MODULE Spec2Model ----
(***************************************************************************)
(* A model of cyber_pijack.py: the variant generator, the effect pipeline  *)
(* and the caption generator.                                              *)
(*                                                                         *)
(* Images are objects on a heap.  The content of an image is the term that *)
(* produced it: the source followed by the operations applied to it, each  *)
(* with its parameters.  The imaging library's filters are uninterpreted   *)
(* (equal terms denote equal pixels); what the script itself computes --   *)
(* intensity, posterize bits, kernel size, noise amplitude, clamping,      *)
(* paths, captions -- is computed as the script computes it.               *)
(*                                                                         *)
(* An intensity is a rational <<num, den>>, den > 0.  The script's float   *)
(* arithmetic is modelled by exact rational arithmetic.  For the products  *)
(* by 1 and 2 and the sum 3 + 2 * intensity this gives the script's values *)
(* at every step of a run.  int(intensity * 30) can be one less than the   *)
(* exact value when the exact product is an integer ((3/5) * 1.5 * 30 is   *)
(* 26.999999999999996 in floating point), so NoiseRange contains every     *)
(* value the script can draw, and at such an intensity two more.           *)
(***************************************************************************)
EXTENDS Integers, Sequences, FiniteSets, TLC

VARIABLES
    pc,              \* position of main: "start", "loop", "done", "failed", "idle"
    num_images,      \* --num_images
    output_dir,      \* --output_dir, a sequence of path components
    watermark_text,  \* --watermark_text: <<>> is None, <<s>> is the string s
    source,          \* content of the file at --input
    disk0,           \* the output directory before the run
    disk,            \* the output directory: path -> file content
    written,         \* the paths this run has written, in order (the console log)
    heap,            \* image objects: id -> content
    base_image,      \* generate_jack_variants: base_image (0 = unbound)
    current,         \* generate_jack_variants: current (0 = unbound)
    variants,        \* generate_jack_variants: variants
    it,              \* position of the for loop's iterator in its range
    ramp,            \* the intensity of each progressive_glitch call so far
    thread,          \* jack_thread_captions: thread, a sequence of blocks
    error,           \* "" or what ended the run
    failed_at,       \* the step whose generation failed, -1 if none
    n_pc,            \* add_pixel_noise harness: "idle", "call", "returned"
    n_size,          \* img.size
    n_in,            \* the pixels passed in
    n_pixels,        \* the pixel buffer of img
    n_intensity,     \* the intensity passed in
    p_pc,            \* parameter harness: "idle", "run"
    calls            \* the (intensity, poster_bits, size) of the calls made

vars == <<pc, num_images, output_dir, watermark_text, source, disk0, disk, written,
          heap, base_image, current, variants, it, ramp, thread, error, failed_at,
          n_pc, n_size, n_in, n_pixels, n_intensity, p_pc, calls>>

runVars == <<pc, num_images, output_dir, watermark_text, source, disk0, disk, written,
             heap, base_image, current, variants, it, ramp, thread, error, failed_at>>
noiseVars == <<n_pc, n_size, n_in, n_pixels, n_intensity>>
paramVars == <<p_pc, calls>>

(***************************************************************************)
(* Bounds                                                                  *)
(***************************************************************************)
MaxN == 6            \* largest --num_images
NumSeeds == 1        \* distinct outcomes of the random source per noise pass
MaxPixels == 2       \* largest width * height of the noise harness
MaxNoiseNum == 3     \* noise harness intensities are 0/NoiseDen .. MaxNoiseNum/NoiseDen
NoiseDen == 20
MaxParamNum == 9     \* parameter harness intensities are n/d, n <= MaxParamNum
MaxParamDen == 2     \*   and 1 <= d <= MaxParamDen
MaxCalls == 2        \* calls the parameter harness makes

(***************************************************************************)
(* Arithmetic                                                              *)
(***************************************************************************)
Max(a, b) == IF a >= b THEN a ELSE b
Min(a, b) == IF a <= b THEN a ELSE b

\* Python int() of the rational num/den (den > 0): truncation toward zero.
Trunc(num, den) == IF num >= 0 THEN num \div den ELSE -((-num) \div den)

\* int(intensity * c)
IntTimes(I, c) == Trunc(I[1] * c, I[2])

\* intensity = (step / max_steps) * 1.5
Intensity(step, max_steps) == <<3 * step, 2 * max_steps>>

\* Variant of PosterBits: the max(1, ...) is left out.
PosterBitsUnclamped(I) == 8 - IntTimes(I, 2)

\* poster_bits = max(1, 8 - int(intensity * 2))
PosterBits(I) == Max(1, 8 - IntTimes(I, 2))

\* Variant of OilSize: raw_size is used as it is.
OilSizeRaw(I) == Max(3, Trunc(3 * I[2] + 2 * I[1], I[2]))

\* raw_size = int(3 + intensity * 2); made odd; max(3, size)
OilSize(I) ==
    LET raw_size == Trunc(3 * I[2] + 2 * I[1], I[2])
        size == IF raw_size % 2 = 1 THEN raw_size ELSE raw_size + 1
    IN  Max(3, size)

\* the bound of random.randint(-int(intensity * 30), int(intensity * 30))
NoiseAmp(I) == IntTimes(I, 30)

\* Variant of NoiseRange: the bound is rounded up instead of truncated.
NoiseRangeRoundedUp(I) == (-(NoiseAmp(I) + 1)) .. (NoiseAmp(I) + 1)

\* the values random.randint(-int(intensity * 30), int(intensity * 30)) can return
NoiseRange(I) == (-NoiseAmp(I)) .. NoiseAmp(I)

(***************************************************************************)
(* add_pixel_noise on a pixel buffer.  noise[p] is the value randint       *)
(* returned for pixel p; one value is added to the three channels.         *)
(***************************************************************************)
Clamp(v) == Max(0, Min(255, v))

NoisePixel(px, noise) ==
    <<Clamp(px[1] + noise), Clamp(px[2] + noise), Clamp(px[3] + noise)>>

Coords(size) == (0 .. size[1] - 1) \X (0 .. size[2] - 1)

AddPixelNoise(pixels, size, noise) ==
    [p \in Coords(size) |-> NoisePixel(pixels[p], noise[p])]

(***************************************************************************)
(* The heap of image objects                                               *)
(***************************************************************************)
Fresh(h) == IF DOMAIN h = {} THEN 1
            ELSE (CHOOSE r \in DOMAIN h : \A q \in DOMAIN h : q <= r) + 1

\* A new image object holding content c.
Alloc(h, c) == [heap |-> (Fresh(h) :> c) @@ h, ref |-> Fresh(h)]

Tag(op, I) == <<op, ToString(I[1]), ToString(I[2])>>

\* Variant of LibFilter: the operation works on the image it is given.
LibFilterInPlace(h, ref, tag) == [heap |-> [h EXCEPT ![ref] = Append(@, tag)], ref |-> ref]

\* A library operation on image ref: the result is a new image, ref is not touched.
LibFilter(h, ref, tag) == Alloc(h, Append(h[ref], tag))

\* add_pixel_noise on image ref: mutates the image in place and returns it.
NoiseInPlace(h, ref, I, z) ==
    [heap |-> [h EXCEPT ![ref] = Append(@, <<"add_pixel_noise", ToString(I[1]),
                                             ToString(I[2]), ToString(z)>>)],
     ref |-> ref]

ChromaticAberration(h, ref, I) ==
    LibFilter(h, ref, <<"chromatic_aberration", ToString(IntTimes(I, 2)),
                        ToString(-IntTimes(I, 1))>>)

CircuitEtch(h, ref, I) == LibFilter(h, ref, Tag("circuit_etch", I))

SimulateOilPaint(h, ref, I) ==
    LET oiled == LibFilter(h, ref, <<"MedianFilter", ToString(OilSize(I))>>)
    IN  LibFilter(oiled.heap, oiled.ref, Tag("Sharpness", I))

WatercolorWash(h, ref, I) ==
    LET washed == LibFilter(h, ref, Tag("GaussianBlur_wash", I))
    IN  LibFilter(washed.heap, washed.ref, Tag("Color_wash", I))

EmbossRelief(h, ref, I) == LibFilter(h, ref, Tag("emboss_blend", I))

\* progressive_glitch(img, step, max_steps); z is the outcome of the random source.
ProgressiveGlitch(h, img, step, max_steps, z) ==
    LET I           == Intensity(step, max_steps)
        blurred     == LibFilter(h, img, Tag("GaussianBlur", I))
        contrasted  == LibFilter(blurred.heap, blurred.ref, Tag("Contrast", I))
        color_surge == LibFilter(contrasted.heap, contrasted.ref, Tag("Color", I))
        posterized  == LibFilter(color_surge.heap, color_surge.ref,
                                 <<"posterize", ToString(PosterBits(I))>>)
        noised      == NoiseInPlace(posterized.heap, posterized.ref, I, z)
        glitched    == LibFilter(noised.heap, noised.ref, Tag("blend_edges", I))
        aberrated   == ChromaticAberration(glitched.heap, glitched.ref, I)
        etched      == CircuitEtch(aberrated.heap, aberrated.ref, I)
        oiled       == SimulateOilPaint(etched.heap, etched.ref, I)
        washed      == WatercolorWash(oiled.heap, oiled.ref, I)
        relieved    == EmbossRelief(washed.heap, washed.ref, I)
    IN  [heap |-> relieved.heap, ref |-> relieved.ref, intensity |-> I]

\* Objects no name refers to any more are freed.
Live(h, refs) == [r \in (DOMAIN h) \cap refs |-> h[r]]

(***************************************************************************)
(* Paths and files                                                         *)
(***************************************************************************)
Join(dir, name) == Append(dir, name)
Basename(path) == path[Len(path)]
Dirname(path) == SubSeq(path, 1, Len(path) - 1)

JackName(i) == "jack_" \o ToString(i) \o ".png"
CaptionName == "cyber_jack_thread.txt"

\* Image.open(path).convert("RGB")
ConvertRGB(c) == Append(c, <<"convert", "RGB">>)

\* The PNG file holding an image, and the image a PNG file holds.
Png(c) == <<<<"PNG">>>> \o c
Partial == <<<<"truncated">>>>
Stale == <<<<"left by an earlier run">>>>

\* Python range(a, b) as a sequence.
Range(a, b) == [j \in 1 .. (b - a) |-> a + j - 1]

\* Variants of StepRange: range(1, num_images) and range(0, num_images + 1).
StepRangeShort(n) == Range(1, n)
StepRangeFromZero(n) == Range(0, n + 1)

\* range(1, num_images + 1)
StepRange(n) == Range(1, n + 1)

\* Variant of NextCurrent: every step starts from base_image.
NextCurrentFromBase(h, cur, base, i, n, z) == ProgressiveGlitch(h, base, i, n, z)

\* current = progressive_glitch(current, i, max_steps=num_images)
NextCurrent(h, cur, base, i, n, z) == ProgressiveGlitch(h, cur, i, n, z)

(***************************************************************************)
(* jack_thread_captions                                                    *)
(***************************************************************************)
\* The fixed texts, without their non-ASCII characters.
Header == "Cyber Splash Pijack: Neon waifu unravels--fringes flare, circuits etch, oils drip in the grid. Bench-born glow. #CyberGlitch #NeonArt\n\n"
Footer == "Grid collapse. Which pulse hooks you? Quote to hack."
Fallback == "matrix meltdown peaks"

effects == <<"chromatic fringes tease the blue haze",
             "saturation surges, wires glow faint",
             "watercolor bleeds into tattoo veins",
             "oil strokes slick the cyber storm",
             "emboss relief fractures the sip">>

\* Variant of Phrase: the bank wraps around.
PhraseCycling(i) == effects[((i - 1) % Len(effects)) + 1]

\* effects[i-1] if i <= len(effects) else 'matrix meltdown peaks'
Phrase(i) == IF i <= Len(effects) THEN effects[i] ELSE Fallback

\* if watermark_text:
Truthy(w) == w # <<>> /\ w[1] # ""

WatermarkPart(w) == IF Truthy(w) THEN <<w[1], " ">> ELSE <<>>

\* Variant of Cap: the watermark goes only with the phrases of the bank.
CapWatermarkBankOnly(i, n, path, w) ==
    <<ToString(i), "/", ToString(n), ": Ramp ", ToString(i), "--", Phrase(i),
      ". Portrait pulses. ">>
    \o (IF i <= Len(effects) THEN WatermarkPart(w) ELSE <<>>)
    \o <<"\n[Neon Fracture: ", Basename(path), "]\n\n">>

\* One caption paragraph, as the pieces the f-strings put together.
Cap(i, n, path, w) ==
    <<ToString(i), "/", ToString(n), ": Ramp ", ToString(i), "--", Phrase(i),
      ". Portrait pulses. ">>
    \o WatermarkPart(w)
    \o <<"\n[Neon Fracture: ", Basename(path), "]\n\n">>

\* thread: the header, a paragraph per variant after the first, the footer.
Thread(vs, w) ==
    <<<<Header>>>>
    \o [i \in 1 .. Len(vs) - 1 |-> Cap(i, Len(vs) - 1, vs[i + 1], w)]
    \o <<<<Footer>>>>

CaptionFile(vs) == Join(IF vs # <<>> THEN Dirname(vs[1]) ELSE <<".">>, CaptionName)

(***************************************************************************)
(* The run of main                                                         *)
(***************************************************************************)
OutputDirs == {<<".", "cyber_jack_variants">>, <<"out">>}
Watermarks == {<<>>, <<"">>, <<"@b3ops">>}
Sources == {<<<<"source">>>>}
Seeds == 1 .. NumSeeds

EmptyDisk == [p \in {} |-> Stale]
StaleDisk(dir) ==
    [p \in {Join(dir, JackName(0)), Join(dir, JackName(1)), Join(dir, JackName(2)),
            Join(dir, CaptionName)} |-> Stale]

\* f.write / img.save: the file at path now holds content c.
WriteFile(d, path, c) == (path :> c) @@ d

NoiseIdle ==
    /\ n_pc = "idle" /\ n_size = <<0, 0>> /\ n_in = <<>> /\ n_pixels = <<>>
    /\ n_intensity = <<0, 1>>
ParamIdle == p_pc = "idle" /\ calls = <<>>
RunIdle ==
    /\ pc = "idle" /\ num_images = 0 /\ output_dir = <<>> /\ watermark_text = <<>>
    /\ source = <<>> /\ disk0 = EmptyDisk /\ disk = EmptyDisk /\ written = <<>>
    /\ heap = EmptyDisk /\ base_image = 0 /\ current = 0 /\ variants = <<>>
    /\ it = 1 /\ ramp = <<>> /\ thread = <<>> /\ error = "" /\ failed_at = -1

Init ==
    /\ pc = "start"
    /\ num_images \in 0 .. MaxN
    /\ output_dir \in OutputDirs
    /\ watermark_text \in Watermarks
    /\ source \in Sources
    /\ disk0 \in {EmptyDisk, StaleDisk(output_dir)}
    /\ disk = disk0
    /\ written = <<>>
    /\ heap = EmptyDisk
    /\ base_image = 0 /\ current = 0
    /\ variants = <<>>
    /\ it = 1
    /\ ramp = <<>>
    /\ thread = <<>>
    /\ error = "" /\ failed_at = -1
    /\ NoiseIdle /\ ParamIdle

\* generate_jack_variants up to the loop: open and convert the input, make the
\* directory, save jack_0, append its path, current = base_image.
GenerateStart ==
    /\ pc = "start"
    /\ LET base == Alloc(heap, ConvertRGB(source))
           base_path == Join(output_dir, JackName(0))
       IN  /\ heap' = base.heap
           /\ base_image' = base.ref
           /\ current' = base.ref
           /\ disk' = WriteFile(disk, base_path, Png(base.heap[base.ref]))
           /\ written' = Append(written, base_path)
           /\ variants' = <<base_path>>
    /\ pc' = "loop"
    /\ UNCHANGED <<num_images, output_dir, watermark_text, source, disk0, it, ramp,
                   thread, error, failed_at>>
    /\ UNCHANGED <<noiseVars, paramVars>>

\* The same, ended by an unhandled error: the input cannot be opened, or saving
\* jack_0 fails (the file is then absent or unchanged, or truncated).
GenerateStartFail ==
    /\ pc = "start"
    /\ \E what \in {"open", "save", "save_truncated"} :
         /\ error' = what
         /\ disk' = IF what = "save_truncated"
                    THEN WriteFile(disk, Join(output_dir, JackName(0)), Partial)
                    ELSE disk
    /\ failed_at' = 0
    /\ pc' = "failed"
    /\ UNCHANGED <<num_images, output_dir, watermark_text, source, disk0, written, heap,
                   base_image, current, variants, it, ramp, thread>>
    /\ UNCHANGED <<noiseVars, paramVars>>

\* One iteration of the loop: glitch current, save it as jack_i, append its path.
LoopStep ==
    /\ pc = "loop"
    /\ it <= Len(StepRange(num_images))
    /\ num_images # 0
    /\ LET i == StepRange(num_images)[it]
           output_path == Join(output_dir, JackName(i))
       IN  \E z \in Seeds :
             LET out == NextCurrent(heap, current, base_image, i, num_images, z)
             IN  /\ heap' = Live(out.heap, {base_image, out.ref})
                 /\ current' = out.ref
                 /\ disk' = WriteFile(disk, output_path, Png(out.heap[out.ref]))
                 /\ written' = Append(written, output_path)
                 /\ variants' = Append(variants, output_path)
                 /\ ramp' = Append(ramp, out.intensity)
    /\ it' = it + 1
    /\ UNCHANGED <<pc, num_images, output_dir, watermark_text, source, disk0, base_image,
                   thread, error, failed_at>>
    /\ UNCHANGED <<noiseVars, paramVars>>

\* Variant of LoopStepFail: the captions of the variants made so far are written
\* before the run ends.
LoopStepFailThenCaptions ==
    /\ pc = "loop"
    /\ it <= Len(StepRange(num_images))
    /\ error' = "pipeline"
    /\ failed_at' = StepRange(num_images)[it]
    /\ thread' = Thread(variants, watermark_text)
    /\ disk' = WriteFile(disk, CaptionFile(variants), thread')
    /\ written' = Append(written, CaptionFile(variants))
    /\ pc' = "failed"
    /\ UNCHANGED <<num_images, output_dir, watermark_text, source, disk0, heap,
                   base_image, current, variants, it, ramp>>
    /\ UNCHANGED <<noiseVars, paramVars>>

\* An iteration ended by an unhandled error: step / max_steps with max_steps = 0,
\* an error inside the pipeline, or a failed save (the file is then absent or
\* unchanged, or truncated).
LoopStepFail ==
    /\ pc = "loop"
    /\ it <= Len(StepRange(num_images))
    /\ LET i == StepRange(num_images)[it]
       IN  /\ \E what \in IF num_images = 0 THEN {"ZeroDivisionError"}
                          ELSE {"pipeline", "save", "save_truncated"} :
                /\ error' = what
                /\ disk' = IF what = "save_truncated"
                           THEN WriteFile(disk, Join(output_dir, JackName(i)), Partial)
                           ELSE disk
           /\ failed_at' = i
    /\ pc' = "failed"
    /\ UNCHANGED <<num_images, output_dir, watermark_text, source, disk0, written, heap,
                   base_image, current, variants, it, ramp, thread>>
    /\ UNCHANGED <<noiseVars, paramVars>>

\* The loop is over: generate_jack_variants returns variants, and main calls
\* jack_thread_captions, which builds the thread and writes the caption file.
JackThreadCaptions ==
    /\ pc = "loop"
    /\ it > Len(StepRange(num_images))
    /\ thread' = Thread(variants, watermark_text)
    /\ disk' = WriteFile(disk, CaptionFile(variants), thread')
    /\ written' = Append(written, CaptionFile(variants))
    /\ heap' = EmptyDisk /\ base_image' = 0 /\ current' = 0
    /\ pc' = "done"
    /\ UNCHANGED <<num_images, output_dir, watermark_text, source, disk0, variants, it,
                   ramp, error, failed_at>>
    /\ UNCHANGED <<noiseVars, paramVars>>

\* The same, ended by an unhandled error of open() or write().
JackThreadCaptionsFail ==
    /\ pc = "loop"
    /\ it > Len(StepRange(num_images))
    /\ \E what \in {"open_caption", "write_caption"} :
         /\ error' = what
         /\ disk' = IF what = "write_caption"
                    THEN WriteFile(disk, CaptionFile(variants), Partial)
                    ELSE disk
    /\ heap' = EmptyDisk /\ base_image' = 0 /\ current' = 0
    /\ pc' = "failed"
    /\ UNCHANGED <<num_images, output_dir, watermark_text, source, disk0, written,
                   variants, it, ramp, thread, failed_at>>
    /\ UNCHANGED <<noiseVars, paramVars>>

Next ==
    \/ GenerateStart
    \/ GenerateStartFail
    \/ LoopStep
    \/ LoopStepFail
    \/ JackThreadCaptions
    \/ JackThreadCaptionsFail

Spec == Init /\ [][Next]_vars

(***************************************************************************)
(* add_pixel_noise called on its own: any small image, any intensity.      *)
(***************************************************************************)
Palette == {<<0, 0, 0>>, <<255, 255, 255>>, <<1, 128, 254>>}
Sizes == {s \in (1 .. MaxPixels) \X (1 .. MaxPixels) : s[1] * s[2] <= MaxPixels}
NoiseIntensities == {<<n, NoiseDen>> : n \in 0 .. MaxNoiseNum}

InitNoise ==
    /\ RunIdle /\ ParamIdle
    /\ n_pc = "call"
    /\ n_size \in Sizes
    /\ n_in \in [Coords(n_size) -> Palette]
    /\ n_pixels = n_in
    /\ n_intensity \in NoiseIntensities

AddPixelNoiseCall ==
    /\ n_pc = "call"
    /\ \E noise \in [Coords(n_size) -> NoiseRange(n_intensity)] :
         n_pixels' = AddPixelNoise(n_pixels, n_size, noise)
    /\ n_pc' = "returned"
    /\ UNCHANGED <<n_size, n_in, n_intensity>>
    /\ UNCHANGED <<runVars, paramVars>>

NextNoise == AddPixelNoiseCall

SpecNoise == InitNoise /\ [][NextNoise]_vars

(***************************************************************************)
(* The parameters progressive_glitch and simulate_oil_paint compute from   *)
(* an intensity, for any non-negative intensity.                           *)
(***************************************************************************)
ParamIntensities ==
    {<<n, d>> : n \in 0 .. MaxParamNum, d \in 1 .. MaxParamDen}
    \cup {Intensity(i, n) : i \in 1 .. MaxN, n \in 1 .. MaxN}

InitParam ==
    /\ RunIdle /\ NoiseIdle
    /\ p_pc = "run"
    /\ calls = <<>>

ParamCall ==
    /\ p_pc = "run"
    /\ Len(calls) < MaxCalls
    /\ \E I \in ParamIntensities :
         calls' = Append(calls, [intensity |-> I, poster_bits |-> PosterBits(I),
                                 size |-> OilSize(I)])
    /\ UNCHANGED p_pc
    /\ UNCHANGED <<runVars, noiseVars>>

NextParam == ParamCall

SpecParam == InitParam /\ [][NextParam]_vars

(***************************************************************************)
(* Properties                                                              *)
(***************************************************************************)
Elems(seq) == {seq[j] : j \in DOMAIN seq}
Unpng(f) == Tail(f)
Abs(v) == IF v >= 0 THEN v ELSE -v

\* The content progressive_glitch(img, i, n) returns for an image of content c.
GlitchOf(c, i, n, z) ==
    LET o == ProgressiveGlitch((1 :> c), 1, i, n, z) IN o.heap[o.ref]

\* Intensities compared as rationals.
RatLeq(a, b) == a[1] * b[2] <= b[1] * a[2]

\* C1: a run that completes has written exactly the N+1 images jack_0.png ..
\* jack_N.png, one after the other by step index, and then exactly one caption
\* file, all in the output directory; variants lists the N+1 image paths in
\* that order; nothing else has appeared in the directory; with N = 0 only
\* jack_0.png and the caption file are produced.
C1_FilesProduced ==
    pc = "done" =>
        /\ Len(variants) = num_images + 1
        /\ \A j \in 1 .. Len(variants) :
             /\ variants[j] = Join(output_dir, "jack_" \o ToString(j - 1) \o ".png")
             /\ variants[j] \in DOMAIN disk
             /\ disk[variants[j]][1] = <<"PNG">>
        /\ written = variants \o <<Join(output_dir, "cyber_jack_thread.txt")>>
        /\ written[Len(written)] \in DOMAIN disk
        /\ (DOMAIN disk) \ (DOMAIN disk0) \subseteq Elems(written)
        /\ disk0 = EmptyDisk => Cardinality(DOMAIN disk) = num_images + 2
        /\ num_images = 0 =>
             written = <<Join(output_dir, "jack_0.png"),
                         Join(output_dir, "cyber_jack_thread.txt")>>

C1_Witness ==
    /\ pc = "done" /\ num_images >= 2 /\ disk0 = EmptyDisk
    /\ Cardinality(DOMAIN disk) = num_images + 2

C1_WitnessZero == pc = "done" /\ num_images = 0 /\ Len(written) = 2

\* C2: once jack_0 is saved it holds the source converted to RGB, it is saved
\* before any pipeline step runs, and no pipeline step changes it or the base
\* image.
C2_StepZeroPristine ==
    /\ ramp # <<>> => variants # <<>>
    /\ variants # <<>> =>
         /\ written[1] = Join(output_dir, "jack_0.png")
         /\ disk[Join(output_dir, "jack_0.png")] = Png(ConvertRGB(source))
         /\ base_image # 0 => heap[base_image] = ConvertRGB(source)

C2_Witness ==
    /\ pc = "loop" /\ Len(ramp) >= 2 /\ base_image # current
    /\ heap[base_image] = ConvertRGB(source)
    /\ disk[Join(output_dir, "jack_0.png")] = Png(ConvertRGB(source))

\* C3: the image saved as variant i is the pipeline's output for the image
\* saved as variant i-1, and for i > 1 not its output for the source; when a
\* step starts, the outputs of all earlier steps are saved and current is the
\* image saved last.
C3_Cumulative ==
    /\ \A i \in 1 .. Len(variants) - 1 :
         LET prev == Unpng(disk[variants[i]])
             this == Unpng(disk[variants[i + 1]])
             base == Unpng(disk[variants[1]])
         IN  /\ \E z \in Seeds : this = GlitchOf(prev, i, num_images, z)
             /\ i > 1 => \A z \in Seeds : this # GlitchOf(base, i, num_images, z)
    /\ pc = "loop" =>
         /\ Len(variants) = Len(ramp) + 1
         /\ written = variants
         /\ heap[current] = Unpng(disk[variants[Len(variants)]])

C3_Witness ==
    /\ pc = "loop" /\ Len(variants) >= 3
    /\ \E z \in Seeds :
         Unpng(disk[variants[3]]) = GlitchOf(Unpng(disk[variants[2]]), 2, num_images, z)

\* C4: the intensity of step i is (i / N) * 1.5; it does not decrease from one
\* step to the next; at step N it is 1.5; and it is never computed with N = 0.
C4_IntensityRamp ==
    /\ error # "ZeroDivisionError"
    /\ ramp # <<>> => num_images >= 1
    /\ pc = "done" => Len(ramp) = num_images
    /\ \A i \in 1 .. Len(ramp) :
         /\ ramp[i][2] # 0
         /\ ramp[i][1] * 2 * num_images = 3 * i * ramp[i][2]
         /\ i > 1 => RatLeq(ramp[i - 1], ramp[i])
         /\ i = num_images => 2 * ramp[i][1] = 3 * ramp[i][2]

C4_Witness ==
    /\ pc = "done" /\ num_images >= 3 /\ Len(ramp) = num_images
    /\ 2 * ramp[num_images][1] = 3 * ramp[num_images][2]
    /\ ~RatLeq(ramp[2], ramp[1])

C4_WitnessZero == pc = "done" /\ num_images = 0 /\ ramp = <<>>

\* C5: the caption text is the header, N paragraphs and the footer; paragraph
\* i is numbered i/N, names jack_i.png, and uses the i-th phrase of the bank
\* for i <= 5 and the fallback phrase for i > 5.
C5_Paragraphs ==
    pc = "done" =>
        /\ Len(thread) = num_images + 2
        /\ thread[1] = <<Header>>
        /\ thread[Len(thread)] = <<Footer>>
        /\ disk[Join(output_dir, "cyber_jack_thread.txt")] = thread
        /\ \A i \in 1 .. num_images :
             LET cap == thread[i + 1]
             IN  /\ SubSeq(cap, 1, 6) =
                      <<ToString(i), "/", ToString(num_images), ": Ramp ", ToString(i), "--">>
                 /\ cap[7] = IF i <= 5 THEN effects[i] ELSE "matrix meltdown peaks"
                 /\ cap[Len(cap) - 1] = Basename(variants[i + 1])
                 /\ cap[Len(cap) - 1] = "jack_" \o ToString(i) \o ".png"

C5_Witness ==
    /\ pc = "done" /\ num_images >= 6
    /\ thread[6][7] = effects[5]
    /\ thread[7][7] = "matrix meltdown peaks"

\* C6: with watermark text given, every numbered paragraph contains it; with
\* none given, nothing stands between the phrase and the file reference; the
\* header and the footer are the same either way.
Contains(cap, text) == text = "" \/ \E j \in 1 .. Len(cap) : cap[j] = text

C6_Watermark ==
    pc = "done" =>
        /\ thread[1] = <<Header>>
        /\ thread[Len(thread)] = <<Footer>>
        /\ \A i \in 2 .. Len(thread) - 1 :
             LET cap == thread[i]
             IN  /\ watermark_text # <<>> => Contains(cap, watermark_text[1])
                 /\ (watermark_text # <<>> /\ watermark_text[1] # "") =>
                      /\ cap[9] = watermark_text[1]
                      /\ Len(cap) = 13
                 /\ watermark_text = <<>> =>
                      /\ Len(cap) = 11
                      /\ cap[8] = ". Portrait pulses. "
                      /\ cap[9] = "\n[Neon Fracture: "

C6_Witness ==
    /\ pc = "done" /\ num_images >= 6 /\ watermark_text = <<"@b3ops">>
    /\ \A i \in 2 .. Len(thread) - 1 : thread[i][9] = "@b3ops"

C6_WitnessNone ==
    /\ pc = "done" /\ num_images >= 2 /\ watermark_text = <<>>
    /\ \A i \in 2 .. Len(thread) - 1 : Len(thread[i]) = 11

\* C7: when generation fails at step k >= 1 the run has ended for good; the
\* images of steps 0 .. k-1 are on disk as saved; no image of a later step and
\* no caption file has been written; nothing but jack_0 .. jack_k has appeared
\* in the directory.
C7_FailureLeavesFiles ==
    (pc = "failed" /\ failed_at >= 1) =>
        LET k == failed_at
            jack(j) == Join(output_dir, JackName(j))
            caption == Join(output_dir, CaptionName)
            untouched(path) ==
                /\ path \notin Elems(written)
                /\ path \in DOMAIN disk <=> path \in DOMAIN disk0
                /\ path \in DOMAIN disk => disk[path] = disk0[path]
        IN  /\ ~ENABLED Next
            /\ Len(variants) = k
            /\ \A j \in 0 .. k - 1 :
                 /\ variants[j + 1] = jack(j)
                 /\ jack(j) \in DOMAIN disk
                 /\ disk[jack(j)][1] = <<"PNG">>
                 /\ jack(j) \in Elems(written)
            /\ \A j \in k + 1 .. MaxN + 1 : untouched(jack(j))
            /\ untouched(caption)
            /\ thread = <<>>
            /\ (DOMAIN disk) \ (DOMAIN disk0) \subseteq {jack(j) : j \in 0 .. k}

C7_Witness ==
    /\ pc = "failed" /\ failed_at = 2 /\ num_images >= 3
    /\ Len(written) = 2
    /\ Join(output_dir, CaptionName) \notin DOMAIN disk

C7_WitnessTruncated ==
    /\ pc = "failed" /\ failed_at = 2 /\ error = "save_truncated"
    /\ disk[Join(output_dir, JackName(2))] = Partial

\* C8: for every intensity >= 0 the posterize bit depth is
\* max(1, 8 - floor(2 * intensity)), a number in 1 .. 8, and in 5 .. 8 when
\* the intensity is at most 1.5.
C8_PosterBits ==
    \A j \in 1 .. Len(calls) :
        LET num == calls[j].intensity[1]
            den == calls[j].intensity[2]
            bits == calls[j].poster_bits
        IN  /\ \E f \in 0 .. 2 * num :
                 /\ f * den <= 2 * num /\ 2 * num < (f + 1) * den
                 /\ bits = IF 8 - f >= 1 THEN 8 - f ELSE 1
            /\ bits \in 1 .. 8
            /\ 2 * num <= 3 * den => bits \in 5 .. 8

C8_Witness ==
    /\ Len(calls) = 2
    /\ calls[1].intensity = <<9, 1>> /\ calls[1].poster_bits = 1
    /\ calls[2].intensity = <<3, 2>> /\ calls[2].poster_bits = 5

\* C9: for every intensity >= 0 the median filter size is floor(3 + 2 *
\* intensity) if that is odd and one more if it is even; it is odd, at least
\* 3, and no smaller for a larger intensity.
C9_OilSize ==
    \A j \in 1 .. Len(calls) :
        LET num == calls[j].intensity[1]
            den == calls[j].intensity[2]
            size == calls[j].size
        IN  /\ \E f \in 3 .. 3 + 2 * num :
                 /\ f * den <= 3 * den + 2 * num /\ 3 * den + 2 * num < (f + 1) * den
                 /\ size = IF f % 2 = 1 THEN f ELSE f + 1
            /\ size % 2 = 1
            /\ size >= 3
            /\ \A m \in 1 .. Len(calls) :
                 RatLeq(calls[j].intensity, calls[m].intensity) => size <= calls[m].size

C9_Witness ==
    /\ Len(calls) = 2
    /\ calls[1].intensity = <<1, 2>> /\ calls[1].size = 5
    /\ calls[2].intensity = <<3, 2>> /\ calls[2].size = 7

\* C10: add_pixel_noise leaves every channel of every pixel in 0 .. 255 and
\* within 30 * intensity of its value before; at intensity 0 the image is
\* unchanged.
C10_NoiseBounded ==
    n_pc = "returned" =>
        /\ DOMAIN n_pixels = Coords(n_size)
        /\ \A p \in Coords(n_size) : \A c \in 1 .. 3 :
             /\ n_pixels[p][c] \in 0 .. 255
             /\ Abs(n_pixels[p][c] - n_in[p][c]) * n_intensity[2] <= 30 * n_intensity[1]
        /\ n_intensity[1] = 0 => n_pixels = n_in

C10_Witness ==
    /\ n_pc = "returned" /\ n_intensity[1] > 0
    /\ \E p \in Coords(n_size) :
         /\ n_in[p] = <<1, 128, 254>>
         /\ n_pixels[p] = <<3, 130, 255>>

C10_WitnessZero ==
    n_pc = "returned" /\ n_intensity[1] = 0 /\ n_pixels = n_in /\ n_size = <<2, 1>>

====
